---- MODULE Spec2Model ----
(***************************************************************************)
(* YouTube-Video-Summarizer: the batch script (summary.py), the Streamlit  *)
(* UI (youtube_summarizer.py) and the llama.cpp invocation adapter         *)
(* (model_add.py), as one state machine per entry point.                   *)
(*                                                                         *)
(* A Python str is a sequence of one-character strings.  The text the      *)
(* llama.cpp runtime generates is a sequence of tokens, each token a       *)
(* non-empty str; the 'text' of a choice is the concatenation of them.     *)
(***************************************************************************)
EXTENDS Integers, Sequences, FiniteSets, TLC

\* ------------------------------------------------------------ bounds
\* longest generation (in tokens) the runtime is let to produce
MaxTokens == 3
\* largest max_length an adapter instance of SpecAdapter is constructed with
MaxMaxLength == 3
\* most elements of 'choices' in a runtime response
MaxChoices == 2
\* most __call__s on one adapter instance in SpecAdapter
MaxCalls == 2
\* most streams of one video
MaxStreams == 2

\* ------------------------------------------------------------ program constants
\* summary.py: MODEL_MAX_LENGTH; youtube_summarizer.py: load_model's max_length
MODEL_MAX_LENGTH == 512
UI_MAX_LENGTH == 512
\* the literal marker "\n\n[INST]" both entry points split on
MARKER == <<"\n", "\n", "[", "I", "N", "S", "T", "]">>
\* youtube_to_audio's default abr
DEFAULT_ABR == "160kbps"

None == "None"
\* no layer constructed (yet); no path; no pipeline result (yet)
NoLayer == [max_length |-> 0, loaded |-> FALSE]
NoPath == [prefix |-> None, stream |-> 0]
NoOutput == [kind |-> "none", hasResults |-> FALSE, results |-> <<>>]
\* a URL that resolves to no video
Unavailable == [resolves |-> FALSE, streams |-> <<>>]

\* ------------------------------------------------------------ str operations
\* s[i:i+len(sep)] == sep, 1-based
MatchAt(s, sep, i) ==
  /\ i >= 1
  /\ i + Len(sep) - 1 <= Len(s)
  /\ SubSeq(s, i, i + Len(sep) - 1) = sep

RECURSIVE FindFrom(_, _, _)
\* str.find: the least index >= i at which sep occurs in s, 0 when there is none
FindFrom(s, sep, i) ==
  IF i + Len(sep) - 1 > Len(s) THEN 0
  ELSE IF MatchAt(s, sep, i) THEN i
  ELSE FindFrom(s, sep, i + 1)

RECURSIVE RFindFrom(_, _, _)
\* str.rfind: the greatest index <= i at which sep occurs in s, 0 when there is none
RFindFrom(s, sep, i) ==
  IF i < 1 THEN 0
  ELSE IF MatchAt(s, sep, i) THEN i
  ELSE RFindFrom(s, sep, i - 1)

RECURSIVE StrSplit(_, _)
\* str.split(sep): cut s at every occurrence of sep, scanning left to right
StrSplit(s, sep) ==
  LET i == FindFrom(s, sep, 1)
  IN  IF i = 0 THEN <<s>>
      ELSE <<SubSeq(s, 1, i - 1)>> \o StrSplit(SubSeq(s, i + Len(sep), Len(s)), sep)

\* the same cut taken from the right end: what is before the LAST occurrence
SummaryOf_LastOccurrence(text) ==
  LET i == RFindFrom(text, MARKER, Len(text))
  IN  IF i = 0 THEN text ELSE SubSeq(text, 1, i - 1)

\* text.split("\n\n[INST]")[0]
SummaryOf(text) == StrSplit(text, MARKER)[1]

\* ------------------------------------------------------------ the llama.cpp runtime
\* tokens of the generation vocabulary
TokA == <<"a">>
TokNL == <<"\n">>
TokNLNL == <<"\n", "\n">>
TokINST == <<"[", "I", "N", "S", "T", "]">>
TokMARK == MARKER
Vocabulary == {TokA, TokNL, TokNLNL, TokINST, TokMARK}
SmallVocabulary == {TokA, TokINST}

RECURSIVE Detokenize(_)
\* the text of a token sequence
Detokenize(toks) ==
  IF toks = <<>> THEN <<>> ELSE Head(toks) \o Detokenize(Tail(toks))

\* every token sequence of at most n tokens over vocab
TokenSeqs(vocab, n) == UNION {[1..k -> vocab] : k \in 0..n}

\* what a generation request of max_tokens may generate: the runtime stops at
\* max_tokens (and, in the model, at MaxTokens)
Generations(vocab, max_tokens) ==
  TokenSeqs(vocab, IF max_tokens < MaxTokens THEN max_tokens ELSE MaxTokens)

\* one element of 'choices': with or without a 'text' key
Choices(vocab, max_tokens) ==
  {[hasText |-> FALSE, tokens |-> <<>>]} \cup
  {[hasText |-> TRUE, tokens |-> g] : g \in Generations(vocab, max_tokens)}

\* the choices after the first are drawn from two: one without 'text', one of one token
LaterChoices ==
  {[hasText |-> FALSE, tokens |-> <<>>], [hasText |-> TRUE, tokens |-> <<TokA>>]}

\* the lists of at most nmax choices
ChoiceLists(vocab, max_tokens, nmax) ==
  {<<>>} \cup
  {<<c>> \o rest : c \in Choices(vocab, max_tokens),
                   rest \in UNION {[1..k -> LaterChoices] : k \in 0..(nmax - 1)}}

\* the runtime's answers to model(prompt=..., max_tokens=...): it raises, or
\* returns a dict without 'choices', or one with a list of at most nmax choices
Responses(vocab, max_tokens, nmax) ==
  {[kind |-> "raise", hasChoices |-> FALSE, choices |-> <<>>]} \cup
  {[kind |-> "dict", hasChoices |-> FALSE, choices |-> <<>>]} \cup
  {[kind |-> "dict", hasChoices |-> TRUE, choices |-> cs] :
     cs \in ChoiceLists(vocab, max_tokens, nmax)}

\* ------------------------------------------------------------ model_add.py
\* the max_tokens a call asks for, off by one
MaxTokensOf_OffByOne(layer) == layer.max_length + 1

\* __call__: max_tokens=self.max_length
MaxTokensOf(layer) == layer.max_length

\* dict.get('choices', [{}])
ChoicesOrDefault(response) ==
  IF response.hasChoices THEN response.choices
  ELSE <<[hasText |-> FALSE, tokens |-> <<>>]>>

\* a lookup that also defaults the empty list to [{}]
LlamaReturn_EmptyDefaults(response) ==
  IF response.kind = "raise" THEN [kind |-> "raise", exc |-> "RuntimeError", text |-> <<>>, tokens |-> <<>>]
  ELSE LET cs == IF response.hasChoices /\ response.choices # <<>> THEN response.choices
                 ELSE <<[hasText |-> FALSE, tokens |-> <<>>]>>
       IN  IF cs[1].hasText
           THEN [kind |-> "return", exc |-> None, text |-> Detokenize(cs[1].tokens), tokens |-> cs[1].tokens]
           ELSE [kind |-> "return", exc |-> None, text |-> <<>>, tokens |-> <<>>]

\* __call__'s result for a runtime answer:
\*   response.get('choices', [{}])[0].get('text', '')
LlamaReturn(response) ==
  IF response.kind = "raise"
  THEN [kind |-> "raise", exc |-> "RuntimeError", text |-> <<>>, tokens |-> <<>>]
  ELSE LET cs == ChoicesOrDefault(response)
       IN  IF cs = <<>>
           THEN [kind |-> "raise", exc |-> "IndexError", text |-> <<>>, tokens |-> <<>>]
           ELSE IF cs[1].hasText
           THEN [kind |-> "return", exc |-> None, text |-> Detokenize(cs[1].tokens), tokens |-> cs[1].tokens]
           ELSE [kind |-> "return", exc |-> None, text |-> <<>>, tokens |-> <<>>]

\* ------------------------------------------------------------ state
VARIABLES
  entry,        \* which program runs: "script", "ui", or "adapter" (the adapter alone)
  pc,           \* the position of main (or of the adapter's user)
  url,          \* the URL main is given (the UI's text input may be empty)
  video,        \* what the URL resolves to: [resolves, streams]
  netOk,        \* whether stream.download() succeeds
  modelExists,  \* whether a file exists at the model path
  file_path,    \* main's file_path
  selected,     \* index of the stream picked by the filter, 0 when none
  downloads,    \* number of stream.download() calls started
  layer,        \* the LlamaCPPInvocationLayer instance: [max_length, loaded]
  ctorMaxLength,\* the max_length the instance was constructed with
  calls,        \* number of __call__s on the instance
  requests,     \* number of generation requests made to the runtime
  response,     \* the runtime's answer to the last request
  ret,          \* the outcome of the last __call__
  graph,        \* the Pipeline's nodes in add_node order: [name, inputs]
  request,      \* the file_paths list given to Pipeline.run
  node,         \* state of each pipeline node: "idle", "active", "done", "failed"
  invoked,      \* names of the nodes in the order they were invoked
  output,       \* what Pipeline.run returned: [kind, hasResults, results]
  out,          \* what was printed / shown, in order
  thrown,       \* the exception that left main uncaught, or None
  stages        \* the stages main has started, in order

vars == <<entry, pc, url, video, netOk, modelExists, file_path, selected, downloads,
          layer, ctorMaxLength, calls, requests, response, ret, graph, request,
          node, invoked, output, out, thrown, stages>>

envVars == <<entry, url, video, netOk, modelExists>>
fetchVars == <<file_path, selected, downloads>>
layerVars == <<layer, ctorMaxLength>>
callVars == <<calls, requests, response, ret>>
pipeVars == <<graph, request, node, invoked, output>>

NoResponse == [kind |-> "none", hasChoices |-> FALSE, choices |-> <<>>]
NoReturn == [kind |-> "none", exc |-> None, text |-> <<>>, tokens |-> <<>>]
NodeNames == {"whisper", "prompt"}

\* the state every program starts from, whatever its environment
Fresh ==
  /\ file_path = NoPath /\ selected = 0 /\ downloads = 0
  /\ layer = NoLayer /\ ctorMaxLength = 0
  /\ calls = 0 /\ requests = 0 /\ response = NoResponse /\ ret = NoReturn
  /\ graph = <<>> /\ request = <<>>
  /\ node = [n \in NodeNames |-> "idle"]
  /\ invoked = <<>> /\ output = NoOutput
  /\ out = <<>> /\ thrown = None /\ stages = <<>>

\* ------------------------------------------------------------ model_add.py, as a program
\* LlamaCPPInvocationLayer.__init__: Llama(model_path=...) loads the weights
\* (it raises when there is no file), then self.max_length = max_length
LayerInit(max_length) ==
  IF modelExists THEN [max_length |-> max_length, loaded |-> TRUE] ELSE NoLayer

\* the state change of one __call__ answered by resp
DoCall(resp) ==
  /\ requests' = requests + 1
  /\ calls' = calls + 1
  /\ response' = resp
  /\ ret' = LlamaReturn(resp)

InitAdapter ==
  /\ entry = "adapter" /\ pc = "new"
  /\ url = "" /\ video = Unavailable /\ netOk = TRUE
  /\ modelExists \in BOOLEAN
  /\ Fresh

\* layer = LlamaCPPInvocationLayer(model_path, max_length=ml)
AdapterConstruct ==
  /\ entry = "adapter" /\ pc = "new"
  /\ \E ml \in 1..MaxMaxLength :
       /\ layer' = LayerInit(ml)
       /\ ctorMaxLength' = ml
       /\ IF modelExists
          THEN pc' = "ready" /\ thrown' = thrown
          ELSE pc' = "crashed" /\ thrown' = "ValueError"
  /\ UNCHANGED <<envVars, fetchVars, callVars, pipeVars, out, stages>>

\* layer(prompt)
AdapterCall ==
  /\ entry = "adapter" /\ pc = "ready"
  /\ calls < MaxCalls
  /\ \E resp \in Responses(SmallVocabulary, MaxTokensOf(layer), MaxChoices) : DoCall(resp)
  /\ UNCHANGED <<envVars, fetchVars, layerVars, pipeVars, out, stages, pc, thrown>>

NextAdapter == AdapterConstruct \/ AdapterCall

SpecAdapter == InitAdapter /\ [][NextAdapter]_vars

\* ------------------------------------------------------------ pytube
StreamKinds ==
  { [abr |-> "160kbps", type |-> "audio"],
    [abr |-> "128kbps", type |-> "audio"],
    [abr |-> None, type |-> "video"] }

\* what a URL may resolve to: nothing, or a video with a list of streams
Videos ==
  {Unavailable} \cup
  {[resolves |-> TRUE, streams |-> ss] : ss \in UNION {[1..k -> StreamKinds] : k \in 0..MaxStreams}}

\* a filter that lets every stream through
FilterAbr_Any(streams, abr) == {i \in 1..Len(streams) : TRUE}

\* yt.streams.filter(abr=abr): the indices of the streams kept
FilterAbr(streams, abr) == {i \in 1..Len(streams) : streams[i].abr = abr}

\* yt.streams.filter(only_audio=True)
FilterOnlyAudio(streams) == {i \in 1..Len(streams) : streams[i].type = "audio"}

\* StreamQuery.last() / .first(): None (0) on an empty query
QueryLast(idx) == IF idx = {} THEN 0 ELSE CHOOSE i \in idx : \A j \in idx : j <= i
QueryFirst(idx) == IF idx = {} THEN 0 ELSE CHOOSE i \in idx : \A j \in idx : i <= j

\* the path stream.download(filename_prefix=prefix) writes and returns
PathOf(prefix, i) == [prefix |-> prefix, stream |-> i]

Raised(exc, sel, started) ==
  [kind |-> "raise", exc |-> exc, path |-> NoPath, sel |-> sel, started |-> started]

\* summary.py youtube_to_audio(url, abr)
youtube_to_audio(abr) ==
  IF ~video.resolves THEN Raised("VideoUnavailable", 0, 0)
  ELSE LET stream == QueryLast(FilterAbr(video.streams, abr))
       IN  IF stream = 0 THEN Raised("ValueError", 0, 0)
           ELSE IF ~netOk THEN Raised("URLError", stream, 1)
           ELSE [kind |-> "return", exc |-> None, path |-> PathOf("", stream),
                 sel |-> stream, started |-> 1]

\* youtube_summarizer.py download_audio(url), before its except clause
download_audio_body ==
  IF ~video.resolves THEN Raised("VideoUnavailable", 0, 0)
  ELSE LET audio_stream == QueryFirst(FilterOnlyAudio(video.streams))
       IN  IF audio_stream = 0 THEN Raised("AttributeError", 0, 0)
           ELSE IF ~netOk THEN Raised("URLError", audio_stream, 1)
           ELSE [kind |-> "return", exc |-> None, path |-> PathOf("audio_", audio_stream),
                 sel |-> audio_stream, started |-> 1]

\* ------------------------------------------------------------ try blocks
\* a script whose main has no try at all
ScriptTryCovers_Nothing(stage) == FALSE

\* summary.py main: the one try/except is around youtube_to_audio
ScriptTryCovers(stage) == stage = "download"

\* a UI whose try also spans the summarize_audio call
UiTryCovers_Run(stage) == stage \in {"download", "run", "extract"}

\* a UI whose extraction is not in a try
UiTryCovers_NoExtract(stage) == stage = "download"

\* youtube_summarizer.py: download_audio's try/except, and main's around the extraction
UiTryCovers(stage) == stage \in {"download", "extract"}

TryCovers(stage) ==
  IF entry = "script" THEN ScriptTryCovers(stage) ELSE UiTryCovers(stage)

\* ------------------------------------------------------------ output
Shown(kind, text, exc) == [kind |-> kind, text |-> text, exc |-> exc]
Msg(kind) == Shown(kind, <<>>, None)

Kinds(log) == {log[i].kind : i \in 1..Len(log)}

\* ------------------------------------------------------------ the pipeline
AddNode(g, name, inputs) == Append(g, [name |-> name, inputs |-> inputs])

\* a pipeline whose prompt node is fed by the file, not by whisper
Pipeline_PromptFromFile ==
  AddNode(AddNode(<<>>, "whisper", {"File"}), "prompt", {"File"})

\* summary.py build_pipeline: the two add_node calls
ScriptPipeline ==
  AddNode(AddNode(<<>>, "whisper", {"File"}), "prompt", {"whisper"})

\* youtube_summarizer.py summarize_audio: the two add_node calls
UiPipeline ==
  AddNode(AddNode(<<>>, "whisper", {"File"}), "prompt", {"whisper"})

\* a request that names the file twice
FilePaths_Twice(path) == <<path, path>>

\* run(file_paths=[file_path])
FilePaths(path) == <<path>>

InGraph(n) == \E i \in 1..Len(graph) : graph[i].name = n
InputsOf(n) == UNION {graph[i].inputs : i \in {j \in 1..Len(graph) : graph[j].name = n}}

\* Pipeline.run is synchronous: it invokes a node once all the nodes feeding
\* it have returned, one node at a time, and stops at the first exception
Ready(n) ==
  /\ pc = "running"
  /\ InGraph(n)
  /\ node[n] = "idle"
  /\ \A m \in NodeNames : node[m] \notin {"active", "failed"}
  /\ \A i \in InputsOf(n) \ {"File"} : node[i] = "done"

\* what the pipeline hands back for the prompt node's text
PipelineOutputs(text) ==
  { [kind |-> "dict", hasResults |-> TRUE, results |-> <<text>>],
    [kind |-> "dict", hasResults |-> TRUE, results |-> <<>>],
    [kind |-> "dict", hasResults |-> FALSE, results |-> <<>>] }

\* ------------------------------------------------------------ the two programs
Init ==
  /\ entry \in {"script", "ui"}
  /\ pc = "start"
  /\ url \in (IF entry = "script" THEN {"https://www.youtube.com/watch?v=h5id4erwD4s"}
              ELSE {"", "https://www.youtube.com/watch?v=h5id4erwD4s"})
  /\ video \in Videos
  /\ netOk \in BOOLEAN
  /\ modelExists \in BOOLEAN
  /\ Fresh

\* an exception raised in `stage` reaches main's caller unless a try covers the stage
Crash(exc) == pc' = "crashed" /\ thrown' = exc

\* summary.py main, lines 74-79: try: file_path = youtube_to_audio(url) except: print; return
ScriptDownload ==
  /\ entry = "script" /\ pc = "start"
  /\ LET r == youtube_to_audio(DEFAULT_ABR)
     IN  /\ stages' = Append(stages, "download")
         /\ selected' = r.sel
         /\ downloads' = downloads + r.started
         /\ IF r.kind = "return"
            THEN file_path' = r.path /\ pc' = "build" /\ UNCHANGED <<out, thrown>>
            ELSE IF TryCovers("download")
            THEN /\ out' = Append(out, Shown("print_failed_fetch", <<>>, r.exc))
                 /\ pc' = "done"
                 /\ UNCHANGED <<file_path, thrown>>
            ELSE Crash(r.exc) /\ UNCHANGED <<file_path, out>>
  /\ UNCHANGED <<envVars, layerVars, callVars, pipeVars>>

\* summary.py main, line 82: pipeline = build_pipeline(MODEL_PATH, MODEL_MAX_LENGTH);
\* PromptModel constructs the invocation layer, whose __init__ loads the weights
ScriptBuildPipeline ==
  /\ entry = "script" /\ pc = "build"
  /\ layer' = LayerInit(MODEL_MAX_LENGTH)
  /\ ctorMaxLength' = MODEL_MAX_LENGTH
  /\ IF modelExists
     THEN graph' = ScriptPipeline /\ pc' = "run" /\ UNCHANGED <<out, thrown>>
     ELSE IF TryCovers("build")
     THEN /\ out' = Append(out, Shown("print_failed_model", <<>>, "ValueError"))
          /\ pc' = "done"
          /\ UNCHANGED <<graph, thrown>>
     ELSE Crash("ValueError") /\ UNCHANGED <<graph, out>>
  /\ UNCHANGED <<envVars, fetchVars, callVars, request, node, invoked, output, stages>>

\* summary.py main, line 84: pipeline.run(file_paths=[file_path]) is entered
ScriptRun ==
  /\ entry = "script" /\ pc = "run"
  /\ request' = FilePaths(file_path)
  /\ stages' = Append(stages, "run")
  /\ pc' = "running"
  /\ UNCHANGED <<envVars, fetchVars, layerVars, callVars, graph, node, invoked, output,
                 out, thrown>>

\* youtube_summarizer.py main, lines 80-83: if st.button("Submit") and youtube_url
UiSubmit ==
  /\ entry = "ui" /\ pc = "start"
  /\ IF url = ""
     THEN pc' = "done" /\ out' = out
     ELSE pc' = "download" /\ out' = Append(out, Msg("st.info"))
  /\ UNCHANGED <<envVars, fetchVars, layerVars, callVars, pipeVars, thrown, stages>>

\* youtube_summarizer.py main, lines 84-86, with download_audio (15-24)
UiDownload ==
  /\ entry = "ui" /\ pc = "download"
  /\ LET r == download_audio_body
     IN  /\ stages' = Append(stages, "download")
         /\ selected' = r.sel
         /\ downloads' = downloads + r.started
         /\ IF r.kind = "return"
            THEN file_path' = r.path /\ pc' = "load" /\ UNCHANGED <<out, thrown>>
            ELSE IF TryCovers("download")
            THEN /\ out' = Append(out, Shown("st.error_download", <<>>, r.exc))
                 /\ file_path' = NoPath
                 /\ pc' = "done"
                 /\ UNCHANGED thrown
            ELSE Crash(r.exc) /\ UNCHANGED <<file_path, out>>
  /\ UNCHANGED <<envVars, layerVars, callVars, pipeVars>>

\* youtube_summarizer.py main, lines 88-90, with load_model (27-38)
UiLoadModel ==
  /\ entry = "ui" /\ pc = "load"
  /\ IF ~modelExists
     THEN /\ out' = Append(out, Msg("st.error_model"))
          /\ pc' = "done"
          /\ UNCHANGED layerVars
     ELSE /\ layer' = LayerInit(UI_MAX_LENGTH)
          /\ ctorMaxLength' = UI_MAX_LENGTH
          /\ pc' = "node"
          /\ out' = out
  /\ UNCHANGED <<envVars, fetchVars, callVars, pipeVars, thrown, stages>>

\* youtube_summarizer.py main, line 92, with build_prompt_node (41-44)
UiBuildPromptNode ==
  /\ entry = "ui" /\ pc = "node"
  /\ pc' = "summarize"
  /\ UNCHANGED <<envVars, fetchVars, layerVars, callVars, pipeVars, out, thrown, stages>>

\* youtube_summarizer.py main, line 93: summarize_audio builds the pipeline and enters run
UiSummarizeAudio ==
  /\ entry = "ui" /\ pc = "summarize"
  /\ graph' = UiPipeline
  /\ request' = FilePaths(file_path)
  /\ stages' = Append(stages, "run")
  /\ pc' = "running"
  /\ UNCHANGED <<envVars, fetchVars, layerVars, callVars, node, invoked, output, out, thrown>>

\* an exception of a node leaves Pipeline.run and reaches main
NodeRaises(n, exc) ==
  /\ node' = [node EXCEPT ![n] = "failed"]
  /\ IF TryCovers("run")
     THEN /\ out' = out \o <<Msg("st.warning"), Msg("st.write_result"), Msg("st.caption")>>
          /\ pc' = "done"
          /\ UNCHANGED thrown
     ELSE Crash(exc) /\ out' = out

\* Pipeline.run invokes the whisper node
WhisperInvoke ==
  /\ Ready("whisper")
  /\ node' = [node EXCEPT !["whisper"] = "active"]
  /\ invoked' = Append(invoked, "whisper")
  /\ UNCHANGED <<envVars, fetchVars, layerVars, callVars, graph, request, output, out,
                 thrown, stages, pc>>

\* the whisper node returns a transcript, or raises
WhisperReturn ==
  /\ pc = "running" /\ node["whisper"] = "active"
  /\ \E ok \in BOOLEAN :
       IF ok THEN node' = [node EXCEPT !["whisper"] = "done"] /\ UNCHANGED <<pc, out, thrown>>
       ELSE NodeRaises("whisper", "TranscriptionError")
  /\ UNCHANGED <<envVars, fetchVars, layerVars, callVars, graph, request, invoked, output,
                 stages>>

\* Pipeline.run invokes the prompt node
PromptInvoke ==
  /\ Ready("prompt")
  /\ node' = [node EXCEPT !["prompt"] = "active"]
  /\ invoked' = Append(invoked, "prompt")
  /\ UNCHANGED <<envVars, fetchVars, layerVars, callVars, graph, request, output, out,
                 thrown, stages, pc>>

\* the prompt node calls the invocation layer once and returns its results, or raises
PromptReturn ==
  /\ pc = "running" /\ node["prompt"] = "active"
  /\ \E resp \in Responses(Vocabulary, MaxTokensOf(layer), 1) :
       /\ DoCall(resp)
       /\ LET r == LlamaReturn(resp)
          IN  IF r.kind = "raise"
              THEN NodeRaises("prompt", r.exc) /\ output' = output
              ELSE /\ node' = [node EXCEPT !["prompt"] = "done"]
                   /\ \E o \in PipelineOutputs(r.text) : output' = o
                   /\ UNCHANGED <<pc, out, thrown>>
  /\ UNCHANGED <<envVars, fetchVars, layerVars, graph, request, invoked, stages>>

\* Pipeline.run returns once every node of the graph has returned
PipelineReturn ==
  /\ pc = "running"
  /\ \A n \in NodeNames : InGraph(n) => node[n] = "done"
  /\ pc' = "extract"
  /\ UNCHANGED <<envVars, fetchVars, layerVars, callVars, pipeVars, out, thrown, stages>>

\* summary.py main, lines 85-90
ScriptExtract ==
  /\ entry = "script" /\ pc = "extract"
  /\ stages' = Append(stages, "extract")
  /\ LET results == IF output.hasResults THEN output.results ELSE <<>>
     IN  IF results # <<>>
         THEN out' = out \o <<Shown("print_results", results[1], None),
                              Shown("print_summary", SummaryOf(results[1]), None)>>
         ELSE out' = Append(out, Msg("print_no_results"))
  /\ pc' = "done"
  /\ UNCHANGED <<envVars, fetchVars, layerVars, callVars, pipeVars, thrown>>

\* result["results"][0].split("\n\n[INST]")[0], with what it raises
UiExtraction(o) ==
  IF ~o.hasResults THEN [kind |-> "raise", exc |-> "KeyError", text |-> <<>>]
  ELSE IF o.results = <<>> THEN [kind |-> "raise", exc |-> "IndexError", text |-> <<>>]
  ELSE [kind |-> "return", exc |-> None, text |-> SummaryOf(o.results[1])]

\* youtube_summarizer.py main, lines 95-110
UiExtract ==
  /\ entry = "ui" /\ pc = "extract"
  /\ stages' = Append(stages, "extract")
  /\ LET x == UiExtraction(output)
         head == out \o <<Msg("st.video"), Msg("st.header")>>
     IN  IF x.kind = "return"
         THEN /\ out' = head \o <<Shown("st.success", x.text, None), Msg("st.caption")>>
              /\ pc' = "done" /\ UNCHANGED thrown
         ELSE IF TryCovers("extract")
         THEN /\ out' = head \o <<Msg("st.warning"), Msg("st.write_result"), Msg("st.caption")>>
              /\ pc' = "done" /\ UNCHANGED thrown
         ELSE Crash(x.exc) /\ out' = head
  /\ UNCHANGED <<envVars, fetchVars, layerVars, callVars, pipeVars>>

Next ==
  \/ ScriptDownload \/ ScriptBuildPipeline \/ ScriptRun \/ ScriptExtract
  \/ UiSubmit \/ UiDownload \/ UiLoadModel \/ UiBuildPromptNode \/ UiSummarizeAudio
  \/ UiExtract
  \/ WhisperInvoke \/ WhisperReturn \/ PromptInvoke \/ PromptReturn \/ PipelineReturn

Spec == Init /\ [][Next]_vars

\* ------------------------------------------------------------ properties
HasMarker(s) == \E i \in 1..Len(s) : MatchAt(s, MARKER, i)

\* where the first occurrence of the marker starts
FirstMarker(s) ==
  CHOOSE i \in 1..Len(s) :
    MatchAt(s, MARKER, i) /\ \A j \in 1..(i - 1) : ~MatchAt(s, MARKER, j)

\* the pipeline returned a non-empty 'results' list
HasFirstResult == output.hasResults /\ output.results # <<>>

Extracted == \E i \in 1..Len(stages) : stages[i] = "extract"
DownloadDone == \E i \in 1..Len(stages) : stages[i] = "download"
RunStarted == \E i \in 1..Len(stages) : stages[i] = "run"

ShownAs(kind, text) == \E i \in 1..Len(out) : out[i].kind = kind /\ out[i].text = text

SummaryKinds ==
  {"print_results", "print_summary", "print_no_results", "st.video", "st.header",
   "st.success", "st.warning", "st.write_result", "st.caption"}

\* C1: in every pipeline run the whisper node is invoked and has returned before
\* the prompt node is invoked; the prompt node is never first, the two are never
\* active together, and a run that returns has invoked both, in that order.
C1_TranscriptionPrecedesSummarization ==
  /\ node["prompt"] # "idle" => node["whisper"] = "done"
  /\ ~(node["whisper"] = "active" /\ node["prompt"] = "active")
  /\ invoked \in {<<>>, <<"whisper">>, <<"whisper", "prompt">>}
  /\ pc = "extract" => invoked = <<"whisper", "prompt">>

C1_Witness ==
  /\ entry = "script"
  /\ node["prompt"] = "active"
  /\ node["whisper"] = "done"

\* C2: the summary shown or printed is the prefix of the first result before the
\* first occurrence of "\n\n[INST]" when the result contains it; when it does not,
\* the UI shows the first result unchanged, and nothing is raised.
C2_SummaryIsPrefixBeforeFirstMarker ==
  (Extracted /\ HasFirstResult) =>
    LET raw == output.results[1]
        want == IF HasMarker(raw) THEN SubSeq(raw, 1, FirstMarker(raw) - 1) ELSE raw
    IN  /\ entry = "ui" => (pc = "done" /\ thrown = None /\ ShownAs("st.success", want))
        /\ entry = "script" => (HasMarker(raw) => ShownAs("print_summary", want))
        /\ \A i \in 1..Len(out) :
             out[i].kind \in {"st.success", "print_summary"} => out[i].text = want

\* a result with text before the marker, and the marker twice
C2_Witness ==
  /\ entry = "ui" /\ pc = "done" /\ HasFirstResult
  /\ LET raw == output.results[1]
     IN  /\ HasMarker(raw)
         /\ FirstMarker(raw) > 1
         /\ \E j \in (FirstMarker(raw) + 1)..Len(raw) : MatchAt(raw, MARKER, j)
         /\ ShownAs("st.success", SubSeq(raw, 1, FirstMarker(raw) - 1))

\* C3: a call never returns a text of more tokens than the max_length the
\* instance was constructed with, and max_length keeps the constructor's value.
C3_OutputBoundedByMaxLength ==
  /\ ret.kind = "return" => Len(ret.tokens) <= ctorMaxLength
  /\ layer.loaded => layer.max_length = ctorMaxLength

\* a second call that returns exactly max_length tokens, fewer than the runtime could
C3_Witness ==
  /\ entry = "adapter" /\ calls = 2
  /\ ret.kind = "return"
  /\ Len(ret.tokens) = layer.max_length
  /\ layer.max_length < MaxTokens

\* the streams the entry point's filter asks for
Matching ==
  IF entry = "script"
  THEN {i \in 1..Len(video.streams) : video.streams[i].abr = DEFAULT_ABR}
  ELSE {i \in 1..Len(video.streams) : video.streams[i].type = "audio"}

DownloadErrorShown(excs) ==
  \E i \in 1..Len(out) :
    /\ out[i].kind \in {"print_failed_fetch", "st.error_download"}
    /\ out[i].exc \in excs

\* C4: when the video has no stream matching the filter, the download fails on
\* the missing stream, starts no download and yields no path; a path is yielded
\* only for a matching stream that was selected and downloaded.
C4_NoStreamNoPath ==
  DownloadDone =>
    /\ (video.resolves /\ Matching = {}) =>
         /\ file_path = NoPath /\ selected = 0 /\ downloads = 0
         /\ DownloadErrorShown({"ValueError", "AttributeError"})
    /\ file_path # NoPath =>
         /\ selected \in Matching
         /\ file_path.stream = selected
         /\ downloads = 1 /\ netOk

\* a video with streams, none at the requested bitrate
C4_Witness ==
  /\ entry = "script" /\ DownloadDone
  /\ video.resolves /\ video.streams # <<>> /\ Matching = {}
  /\ DownloadErrorShown({"ValueError"})

\* C5: after a failed download the failure has been reported as a message, main
\* has returned, and no model was loaded, no pipeline built or run, no summary shown.
C5_DownloadFailureHalts ==
  (DownloadDone /\ file_path = NoPath) =>
    /\ pc = "done" /\ thrown = None
    /\ DownloadErrorShown({"VideoUnavailable", "ValueError", "AttributeError", "URLError"})
    /\ ~layer.loaded /\ graph = <<>> /\ request = <<>>
    /\ invoked = <<>> /\ calls = 0 /\ output = NoOutput
    /\ stages = <<"download">>
    /\ Kinds(out) \cap SummaryKinds = {}

\* the script's download was started and broke off
C5_Witness ==
  /\ entry = "script" /\ DownloadDone /\ file_path = NoPath
  /\ downloads = 1 /\ pc = "done"

\* C6: with no file at the model path, main reports a message and returns
\* before any pipeline run, in the UI and in the script alike.
C6_MissingModelCaught ==
  (~modelExists /\ file_path # NoPath /\ pc \in {"done", "crashed"}) =>
    /\ pc = "done" /\ thrown = None
    /\ Kinds(out) \cap {"st.error_model", "print_failed_model"} # {}
    /\ invoked = <<>>

\* C7: an exception of either node leaves main uncaught: nothing of the summary
\* stage is shown or printed, in the script and in the UI.
C7_NodeFailureAborts ==
  (\E n \in NodeNames : node[n] = "failed") =>
    /\ pc = "crashed" /\ thrown # None
    /\ ~Extracted
    /\ Kinds(out) \cap SummaryKinds = {}

\* the UI's inference call raised on an empty 'choices' list
C7_Witness ==
  /\ entry = "ui" /\ node["prompt"] = "failed"
  /\ thrown = "IndexError"

\* C8, as claimed: a first result without the delimiter is an extraction failure,
\* which the UI answers by showing the raw output and the script by raising.
C8_AsClaimed ==
  (Extracted /\ HasFirstResult /\ ~HasMarker(output.results[1])) =>
    /\ entry = "ui" =>
         /\ pc = "done"
         /\ \/ ShownAs("st.success", output.results[1])
            \/ "st.write_result" \in Kinds(out)
    /\ entry = "script" => (pc = "crashed" /\ thrown # None)

\* C8, amended: a missing delimiter is no failure: both entry points then emit the
\* first result unchanged and raise nothing. The UI's fallback (warning and raw
\* result) is taken exactly when 'results' is missing or empty; for those outputs
\* the script prints that there are no results, and its extraction raises for no
\* output whose first result is a string.
C8_MissingDelimiterIsNoFailure ==
  Extracted =>
    /\ pc = "done" /\ thrown = None
    /\ IF HasFirstResult
       THEN /\ "st.warning" \notin Kinds(out)
            /\ "print_no_results" \notin Kinds(out)
            /\ ~HasMarker(output.results[1]) =>
                 IF entry = "ui" THEN ShownAs("st.success", output.results[1])
                 ELSE ShownAs("print_summary", output.results[1])
       ELSE IF entry = "ui"
       THEN {"st.warning", "st.write_result"} \subseteq Kinds(out)
            /\ "st.success" \notin Kinds(out)
       ELSE "print_no_results" \in Kinds(out) /\ "print_summary" \notin Kinds(out)

\* the script printed a non-empty first result that has no delimiter
C8_Witness ==
  /\ entry = "script" /\ Extracted /\ HasFirstResult
  /\ output.results[1] # <<>>
  /\ ~HasMarker(output.results[1])
  /\ ShownAs("print_summary", output.results[1])

\* C9: the stages start in the order download, run, extract, each at most once;
\* the run is started only with the path the download returned, and its request
\* holds exactly that path.
C9_StagesInOrderOnce ==
  /\ stages \in {<<>>, <<"download">>, <<"download", "run">>, <<"download", "run", "extract">>}
  /\ downloads <= 1 /\ calls <= 1 /\ Len(invoked) <= 2
  /\ RunStarted =>
       /\ file_path # NoPath
       /\ file_path.stream = selected /\ selected \in Matching
       /\ request = <<file_path>>

C9_Witness ==
  /\ entry = "ui" /\ pc = "done"
  /\ stages = <<"download", "run", "extract">>
  /\ request = <<file_path>>

\* C10: each call makes one generation request; it returns the first choice's
\* 'text', or "" when 'choices' is absent or the first choice has no 'text'; an
\* empty 'choices' list makes it raise IndexError, and an exception of the
\* runtime leaves the call.
C10_CallMapsResponse ==
  /\ requests = calls
  /\ calls > 0 =>
       IF response.kind = "raise"
         THEN ret.kind = "raise" /\ ret.exc = "RuntimeError"
       ELSE IF ~response.hasChoices
         THEN ret.kind = "return" /\ ret.text = <<>>
       ELSE IF response.choices = <<>>
         THEN ret.kind = "raise" /\ ret.exc = "IndexError"
       ELSE IF response.choices[1].hasText
         THEN ret.kind = "return" /\ ret.text = Detokenize(response.choices[1].tokens)
       ELSE ret.kind = "return" /\ ret.text = <<>>

C10_Witness ==
  /\ entry = "adapter" /\ calls > 0
  /\ response.kind = "dict" /\ response.hasChoices /\ response.choices = <<>>
  /\ ret.kind = "raise" /\ ret.exc = "IndexError"

====
